---- MODULE Spec2Model ----
(***************************************************************************)
(* Model of the traversal engine of repoze.bfg (traversal.py): the path    *)
(* codec (traversal_path, quote_path_segment, _url_quote), the graph       *)
(* walker (ModelGraphTraverser.__call__) and the path resolver (find_root, *)
(* find_model, model_path, model_path_tuple).                              *)
(*                                                                         *)
(* Strings are sequences of numbers: a byte string (Python 2 str) is a     *)
(* sequence of bytes 0..255, a text (unicode) is a sequence of code        *)
(* points.  An ASCII str and the unicode text of the same characters are   *)
(* equal and hash alike in Python 2, and so are the same sequence here;    *)
(* non-ASCII text is drawn as unicode objects only.                        *)
(***************************************************************************)
EXTENDS Integers, Sequences, FiniteSets, TLC

VARIABLES
    names,           \* the model graph: __name__ of every node
    path_cache,      \* the cache of @lru_cache(1000) around traversal_path
    _segment_cache,  \* module dictionary _segment_cache
    _safemaps,       \* whether _safemaps/_must_quote hold the quoting table
    pc,              \* "ready" before the call, "done" after it
    call,            \* the call made: operation and arguments
    ret,             \* what the call returned or raised
    history,         \* observer of the path cache: the raw paths decoded, in
                     \* the order of their last use, and those evicted so far
    threads,         \* the threads inside quote_path_segment: where each
                     \* is, with its argument and its local values
    _system          \* BeforeRender._system: the renderer globals dictionary

vars ==
    <<names, path_cache, _segment_cache, _safemaps, pc, call, ret, history,
      threads, _system>>

(***************************************************************************)
(* Characters                                                              *)
(***************************************************************************)
Ascii ==
    << " ", "!", "\"", "#", "$", "%", "&", "'", "(", ")", "*", "+", ",", "-",
       ".", "/", "0", "1", "2", "3", "4", "5", "6", "7", "8", "9", ":", ";",
       "<", "=", ">", "?", "@", "A", "B", "C", "D", "E", "F", "G", "H", "I",
       "J", "K", "L", "M", "N", "O", "P", "Q", "R", "S", "T", "U", "V", "W",
       "X", "Y", "Z", "[", "\\", "]", "^", "_", "GRAVE", "a", "b", "c", "d", "e",
       "f", "g", "h", "i", "j", "k", "l", "m", "n", "o", "p", "q", "r", "s",
       "t", "u", "v", "w", "x", "y", "z", "{", "|", "}", "~" >>

\* ord(c) of a printable ASCII character
Ord(c) == 31 + (CHOOSE i \in DOMAIN Ascii : Ascii[i] = c)

\* the string whose characters are cs
Str(cs) == [i \in DOMAIN cs |-> Ord(cs[i])]

SLASH == Ord("/")
PERCENT == Ord("%")
DOT == Str(<<".">>)
DOTDOT == Str(<<".", ".">>)
\* variant: a marker of one character
VIEW_MARKER_single == Str(<<"@">>)

VIEW_MARKER == Str(<<"@", "@">>)
EMPTY == <<>>

\* Python None, where a name or a parent may be absent
None == <<-1>>

(***************************************************************************)
(* str methods                                                             *)
(***************************************************************************)
RECURSIVE rstrip(_, _)
rstrip(s, c) ==
    IF s # EMPTY /\ s[Len(s)] = c THEN rstrip(SubSeq(s, 1, Len(s) - 1), c) ELSE s

RECURSIVE lstrip(_, _)
lstrip(s, c) ==
    IF s # EMPTY /\ s[1] = c THEN lstrip(Tail(s), c) ELSE s

RECURSIVE split(_, _)
split(s, sep) ==
    IF \A i \in DOMAIN s : s[i] # sep
    THEN <<s>>
    ELSE LET k == CHOOSE i \in DOMAIN s :
                      s[i] = sep /\ \A j \in 1..(i - 1) : s[j] # sep
         IN <<SubSeq(s, 1, k - 1)>> \o split(SubSeq(s, k + 1, Len(s)), sep)

RECURSIVE join(_, _)
join(sep, parts) ==
    IF parts = <<>> THEN EMPTY
    ELSE IF Len(parts) = 1 THEN parts[1]
    ELSE parts[1] \o sep \o join(sep, Tail(parts))

\* s[:n]
Prefix(s, n) ==
    SubSeq(s, 1, IF n < 0 THEN 0 ELSE IF n > Len(s) THEN Len(s) ELSE n)

\* s[n:]
Suffix(s, n) == SubSeq(s, (IF n < 0 THEN 0 ELSE n) + 1, Len(s))

(***************************************************************************)
(* UTF-8 (code points below 0x10000)                                       *)
(***************************************************************************)
utf8_encode_char(cp) ==
    IF cp < 128 THEN <<cp>>
    ELSE IF cp < 2048 THEN <<192 + (cp \div 64), 128 + (cp % 64)>>
    ELSE <<224 + (cp \div 4096), 128 + ((cp \div 64) % 64), 128 + (cp % 64)>>

RECURSIVE utf8_encode(_)
utf8_encode(text) ==
    IF text = EMPTY THEN EMPTY
    ELSE utf8_encode_char(Head(text)) \o utf8_encode(Tail(text))

IsContinuation(b) == b \in 128..191

\* segment.decode('utf-8'): ok is FALSE where Python raises UnicodeDecodeError
RECURSIVE utf8_decode(_)
utf8_decode(b) ==
    IF b = EMPTY THEN [ok |-> TRUE, val |-> EMPTY]
    ELSE IF b[1] < 128 THEN
        LET r == utf8_decode(Tail(b))
        IN [ok |-> r.ok, val |-> <<b[1]>> \o r.val]
    ELSE IF b[1] \in 194..223 /\ Len(b) >= 2 /\ IsContinuation(b[2]) THEN
        LET r == utf8_decode(Suffix(b, 2))
        IN [ok |-> r.ok, val |-> <<(b[1] - 192) * 64 + (b[2] - 128)>> \o r.val]
    ELSE IF /\ b[1] \in 224..239 /\ Len(b) >= 3
            /\ IsContinuation(b[2]) /\ IsContinuation(b[3])
            /\ (b[1] = 224 => b[2] >= 160) THEN
        LET r == utf8_decode(Suffix(b, 3))
        IN [ok |-> r.ok,
            val |-> <<(b[1] - 224) * 4096 + (b[2] - 128) * 64 + (b[3] - 128)>>
                    \o r.val]
    ELSE [ok |-> FALSE, val |-> EMPTY]

(***************************************************************************)
(* urllib.unquote                                                          *)
(***************************************************************************)
HexValue(c) ==
    IF c \in Ord("0")..Ord("9") THEN c - Ord("0")
    ELSE IF c \in Ord("A")..Ord("F") THEN c - Ord("A") + 10
    ELSE IF c \in Ord("a")..Ord("f") THEN c - Ord("a") + 10
    ELSE -1

\* one item of s.split('%') after the first
unquote_item(item) ==
    IF Len(item) >= 2 /\ HexValue(item[1]) >= 0 /\ HexValue(item[2]) >= 0
    THEN <<16 * HexValue(item[1]) + HexValue(item[2])>> \o Suffix(item, 2)
    ELSE <<PERCENT>> \o item

RECURSIVE unquote_items(_)
unquote_items(items) ==
    IF items = <<>> THEN EMPTY
    ELSE unquote_item(Head(items)) \o unquote_items(Tail(items))

unquote(s) ==
    LET res == split(s, PERCENT)
    IN res[1] \o unquote_items(Tail(res))

(***************************************************************************)
(* traversal_path: the function under the lru_cache decorator              *)
(***************************************************************************)
\* variant: a '..' is dropped and deletes nothing
RECURSIVE traversal_path_loop_keep(_, _)
traversal_path_loop_keep(segments, clean) ==
    IF segments = <<>> THEN [exc |-> "none", val |-> clean]
    ELSE IF unquote(Head(segments)) \in {EMPTY, DOT, DOTDOT}
    THEN traversal_path_loop_keep(Tail(segments), clean)
    ELSE IF ~utf8_decode(unquote(Head(segments))).ok
    THEN [exc |-> "TypeError", val |-> <<>>]
    ELSE traversal_path_loop_keep(Tail(segments),
             Append(clean, utf8_decode(unquote(Head(segments))).val))

RECURSIVE traversal_path_loop(_, _)
traversal_path_loop(segments, clean) ==
    IF segments = <<>> THEN [exc |-> "none", val |-> clean]
    ELSE LET segment == unquote(Head(segments))
         IN IF segment = EMPTY \/ segment = DOT
            THEN traversal_path_loop(Tail(segments), clean)
            ELSE IF segment = DOTDOT
            THEN IF clean = <<>>
                 THEN [exc |-> "IndexError", val |-> <<>>]
                 ELSE traversal_path_loop(Tail(segments),
                                          SubSeq(clean, 1, Len(clean) - 1))
            ELSE LET d == utf8_decode(segment)
                 IN IF ~d.ok
                    THEN [exc |-> "TypeError", val |-> <<>>]
                    ELSE traversal_path_loop(Tail(segments),
                                             Append(clean, d.val))

traversal_path(path) ==
    traversal_path_loop(split(lstrip(rstrip(path, SLASH), SLASH), SLASH), <<>>)

(***************************************************************************)
(* The module-level caches.  An operation that reads or writes them takes  *)
(* their state m = [path_cache, segment_cache, safemaps] and returns the   *)
(* state it leaves in the field m of its result.  Where Python binds a     *)
(* value to a local and goes on, the rest of the function is an operator   *)
(* taking that value.                                                      *)
(***************************************************************************)
Caches == [path_cache |-> path_cache, segment_cache |-> _segment_cache,
           safemaps |-> _safemaps]

\* @lru_cache(1000): the capacity of the cache, kept small here so that
\* entries are evicted
lru_maxsize == 2

\* LRUCache.put: entries are kept least recently used first
lru_put(cache, key, val) ==
    Append(IF Len(cache) >= lru_maxsize THEN Tail(cache) ELSE cache,
           [key |-> key, val |-> val])

\* variant: a hit leaves the order of the entries as it is
lru_hit_still(m, i) == [exc |-> "none", val |-> m.path_cache[i].val, m |-> m]

\* LRUCache.get on a hit at position i: the entry becomes the most recent
lru_hit(m, i) ==
    [exc |-> "none", val |-> m.path_cache[i].val,
     m |-> [m EXCEPT !.path_cache =
                SubSeq(@, 1, i - 1) \o SubSeq(@, i + 1, Len(@)) \o <<@[i]>>]]

\* a miss: val = f(*arg); cache.put(arg, val).  A call that raises stores
\* nothing.
lru_miss(m, path, r) ==
    IF r.exc # "none"
    THEN [exc |-> r.exc, val |-> <<>>, m |-> m]
    ELSE [exc |-> "none", val |-> r.val,
          m |-> [m EXCEPT !.path_cache = lru_put(@, path, r.val)]]

\* traversal_path as the module exports it: the lru_cache wrapper around the
\* function
lru_cached(m, path) ==
    IF \E i \in DOMAIN m.path_cache : m.path_cache[i].key = path
    THEN lru_hit(m, CHOOSE i \in DOMAIN m.path_cache : m.path_cache[i].key = path)
    ELSE lru_miss(m, path, traversal_path(path))

(***************************************************************************)
(* _url_quote and quote_path_segment                                       *)
(***************************************************************************)
always_safe ==
    (Ord("A")..Ord("Z")) \cup (Ord("a")..Ord("z")) \cup (Ord("0")..Ord("9"))
        \cup {Ord("_"), Ord("."), Ord("-")}

HexDigits == Str(<<"0", "1", "2", "3", "4", "5", "6", "7", "8", "9",
                   "A", "B", "C", "D", "E", "F">>)

\* variant: '/' is safe too, as it is for urllib.quote
safe_map_slash(c) ==
    IF c \in always_safe \cup {SLASH} THEN <<c>>
    ELSE <<PERCENT, HexDigits[(c \div 16) + 1], HexDigits[(c % 16) + 1]>>

\* safe_map[c]: (c in safe) and c or ('%%%02X' % i)
safe_map(c) ==
    IF c \in always_safe THEN <<c>>
    ELSE <<PERCENT, HexDigits[(c \div 16) + 1], HexDigits[(c % 16) + 1]>>

RECURSIVE map_safe_map(_)
map_safe_map(s) ==
    IF s = EMPTY THEN EMPTY ELSE safe_map(Head(s)) \o map_safe_map(Tail(s))

\* variant: with the table cached the text is returned as it is
_url_quote_unsearched(built, s) == IF built THEN s ELSE map_safe_map(s)

\* _url_quote(s) with safe = '': built says whether the table is cached
_url_quote(built, s) ==
    IF built /\ \A i \in DOMAIN s : s[i] \in always_safe
    THEN s
    ELSE map_safe_map(s)

\* _segment_cache[segment] = result; return result
quote_store(m, segment, result) ==
    [val |-> result,
     m |-> [m EXCEPT !.segment_cache = (segment :> result) @@ @,
                     !.safemaps = TRUE]]

\* For ASCII text lines 484 and 486 give the same bytes; other text is unicode.
quote_path_segment(m, segment) ==
    IF segment \in DOMAIN m.segment_cache
    THEN [val |-> m.segment_cache[segment], m |-> m]
    ELSE quote_store(m, segment, _url_quote(m.safemaps, utf8_encode(segment)))

quote_cons(first, r) == [val |-> <<first>> \o r.val, m |-> r.m]

\* [quote_path_segment(x) for x in path]
RECURSIVE quote_path_segments(_, _)
RECURSIVE quote_rest(_, _)
quote_path_segments(m, path) ==
    IF path = <<>> THEN [val |-> <<>>, m |-> m]
    ELSE quote_rest(quote_path_segment(m, Head(path)), Tail(path))

quote_rest(q, rest) == quote_cons(q.val, quote_path_segments(q.m, rest))

\* s or '/'
or_slash(s) == IF s # EMPTY THEN s ELSE <<SLASH>>

(***************************************************************************)
(* The model graph.  Node n > 1 has parent n \div 2; the root is node 1.  *)
(* A node that has children offers __getitem__; of the others, the even    *)
(* ones are empty containers and the odd ones are leaves without it.       *)
(***************************************************************************)
NumNodes == 5

\* threads that call quote_path_segment at the same time
NumThreads == 2

Thread == 1..NumThreads

IdleThread == [pc |-> "idle", segment |-> <<>>, built |-> FALSE, result |-> <<>>]

Node == 1..NumNodes

ROOT == 1

\* location.__parent__; a value outside Node stands for None
ParentOf(n) == n \div 2

Children(n) == {c \in Node : ParentOf(c) = n}

HasGetitem(n) == Children(n) # {} \/ n % 2 = 0

\* ob.__getitem__(segment); a value outside Node stands for KeyError
getitem(ob, segment) ==
    IF \E c \in Children(ob) : names[c] = segment
    THEN CHOOSE c \in Children(ob) : names[c] = segment
    ELSE 0

\* repoze.bfg.location.lineage: model, its parent, ... up to the root
RECURSIVE lineage(_)
lineage(model) ==
    IF ParentOf(model) \notin Node THEN <<model>>
    ELSE <<model>> \o lineage(ParentOf(model))

\* variant: the lineage is left in node-to-root order
Reverse_not(s) == s

Reverse(s) == [i \in DOMAIN s |-> s[Len(s) + 1 - i]]

(***************************************************************************)
(* find_root, model_path, model_path_tuple                                 *)
(***************************************************************************)
\* variant: the loop stops at the first location of the lineage
first_of_lineage(l, model) == l[1]

\* the first location of l whose __parent__ is None, or model if there is none
first_parentless(l, model) ==
    IF \E i \in DOMAIN l : ParentOf(l[i]) \notin Node
    THEN l[CHOOSE i \in DOMAIN l :
               /\ ParentOf(l[i]) \notin Node
               /\ \A j \in 1..(i - 1) : ParentOf(l[j]) \in Node]
    ELSE model

find_root(model) == first_parentless(lineage(model), model)

\* location.__name__ or ''
name_or_empty(n) == IF names[n] = None \/ names[n] = EMPTY THEN EMPTY ELSE names[n]

names_of(lpath) == [i \in DOMAIN lpath |-> name_or_empty(lpath[i])]

_model_path_list(model, elements) ==
    names_of(Reverse(lineage(model))) \o elements

model_path_tuple(model, elements) == _model_path_list(model, elements)

\* '/'.join([quote_path_segment(x) for x in path]) or '/'
join_quoted(q) == [val |-> or_slash(join(<<SLASH>>, q.val)), m |-> q.m]

\* path and '/'.join(...) or '/'
model_path_of(m, path) ==
    IF path = <<>> THEN [val |-> <<SLASH>>, m |-> m]
    ELSE join_quoted(quote_path_segments(m, path))

model_path(m, model, elements) ==
    model_path_of(m, _model_path_list(model, elements))

(***************************************************************************)
(* ModelGraphTraverser.__call__                                            *)
(*                                                                         *)
(* environ is a function from the keys present to their values.  A value   *)
(* that is either a string or an iterable (matchdict['traverse'],          *)
(* matchdict['subpath'], the path given to traverse) is a record           *)
(* [iter |-> whether it has __iter__, v |-> the string or the tuple].      *)
(* The result carries, beside the dictionary returned (val) or the         *)
(* exception raised (exc), the __getitem__ calls made: <<node, segment>>.  *)
(***************************************************************************)
VH_ROOT_KEY == "HTTP_X_VHM_ROOT"

ResultDict(context, view_name, subpath, traversed, vroot, vroot_tuple, root) ==
    [context |-> context, view_name |-> view_name, subpath |-> subpath,
     traversed |-> traversed, virtual_root |-> vroot,
     virtual_root_path |-> vroot_tuple, root |-> root]

Raised(exc, m) == [exc |-> exc, val |-> <<>>, m |-> m, lookups |-> <<>>]

\* traversed=vpath_tuple[:vroot_idx+i+1]
\* variant: the slice ends one segment earlier
traversed_slice_short(vpath_tuple, vroot_idx, i) == Prefix(vpath_tuple, vroot_idx + i)

traversed_slice(vpath_tuple, vroot_idx, i) == Prefix(vpath_tuple, vroot_idx + i + 1)

\* return dict(context=ob, view_name=..., subpath=vpath_tuple[i+1:], ...)
traverser_stop(c, i, ob, vroot, view_name, lookups) ==
    [found |-> TRUE,
     val |-> ResultDict(ob, view_name, Suffix(c.vpath_tuple, i + 1),
                        traversed_slice(c.vpath_tuple, c.vroot_idx, i),
                        vroot, c.vroot_tuple, c.root),
     lookups |-> lookups]

\* next = getitem(segment), and the rest of the loop body
RECURSIVE traverser_loop(_, _, _, _, _)
RECURSIVE traverser_next(_, _, _, _, _, _)
traverser_next(c, i, ob, vroot, next, lookups) ==
    IF next \notin Node
    THEN traverser_stop(c, i, ob, vroot, c.vpath_tuple[i + 1], lookups)
    ELSE traverser_loop(c, i + 1, next,
                        IF i = c.vroot_idx THEN next ELSE vroot, lookups)

\* the for loop over vpath_tuple, at its segment number i (from 0); c holds
\* what the loop does not change.  found is FALSE when the loop ends without
\* a return.
traverser_loop(c, i, ob, vroot, lookups) ==
    IF i >= Len(c.vpath_tuple)
    THEN [found |-> FALSE, ob |-> ob, vroot |-> vroot, lookups |-> lookups]
    ELSE IF Prefix(c.vpath_tuple[i + 1], 2) = VIEW_MARKER
    THEN traverser_stop(c, i, ob, vroot, Suffix(c.vpath_tuple[i + 1], 2), lookups)
    ELSE IF ~HasGetitem(ob)
    THEN traverser_stop(c, i, ob, vroot, c.vpath_tuple[i + 1], lookups)
    ELSE traverser_next(c, i, ob, vroot, getitem(ob, c.vpath_tuple[i + 1]),
                        Append(lookups, <<ob, c.vpath_tuple[i + 1]>>))

\* a return inside the loop, or the return after it (lines 578-580)
traverser_return(m, c, subpath, w) ==
    [exc |-> "none",
     val |-> IF w.found THEN w.val
             ELSE ResultDict(w.ob, EMPTY, subpath, c.vpath_tuple, w.vroot,
                             c.vroot_tuple, c.root),
     m |-> m, lookups |-> w.lookups]

traverser_walk(m, c, subpath) ==
    traverser_return(m, c, subpath, traverser_loop(c, 0, c.root, c.root, <<>>))

\* vpath_tuple = traversal_path(vpath), and the loop
traverser_decoded(t, root, subpath, v) ==
    IF t.exc # "none" THEN Raised(t.exc, t.m)
    ELSE traverser_walk(t.m, [vpath_tuple |-> t.val, vroot_idx |-> v.vroot_idx,
                              vroot_tuple |-> v.vroot_tuple, root |-> root],
                        subpath)

\* lines 534-580, v being what lines 523-532 leave
traverser_from(v, root, subpath) ==
    IF v.exc # "none" THEN Raised(v.exc, v.m)
    ELSE IF v.vpath = <<SLASH>> \/ v.vpath = EMPTY
    THEN [exc |-> "none",
          val |-> ResultDict(root, EMPTY, subpath, <<>>, root, v.vroot_tuple, root),
          m |-> v.m, lookups |-> <<>>]
    ELSE traverser_decoded(lru_cached(v.m, v.vpath), root, subpath, v)

\* the else clause of lines 529-532
vroot_decoded(t, vroot_path, path) ==
    [exc |-> t.exc, vroot_tuple |-> t.val, vpath |-> vroot_path \o path,
     vroot_idx |-> Len(t.val) - 1, m |-> t.m]

\* lines 523-532: the virtual root header
traverser_vroot(m, environ, path) ==
    IF VH_ROOT_KEY \notin DOMAIN environ
    THEN [exc |-> "none", vroot_tuple |-> <<>>, vpath |-> path, vroot_idx |-> -1,
          m |-> m]
    ELSE vroot_decoded(lru_cached(m, environ[VH_ROOT_KEY]), environ[VH_ROOT_KEY],
                       path)

\* lines 505-508: path = matchdict.get('traverse', '/')
route_traverse(m, matchdict) ==
    IF "traverse" \notin DOMAIN matchdict THEN [val |-> <<SLASH>>, m |-> m]
    ELSE IF matchdict["traverse"].iter
    THEN join_quoted(quote_path_segments(m, matchdict["traverse"].v))
    ELSE [val |-> matchdict["traverse"].v, m |-> m]

\* lines 510-513: subpath = matchdict.get('subpath', ())
route_subpath(m, matchdict) ==
    IF "subpath" \notin DOMAIN matchdict THEN [exc |-> "none", val |-> <<>>, m |-> m]
    ELSE IF matchdict["subpath"].iter
    THEN [exc |-> "none", val |-> matchdict["subpath"].v, m |-> m]
    ELSE lru_cached(m, matchdict["subpath"].v)

route_shape(p, s) == [exc |-> s.exc, path |-> p.val, subpath |-> s.val, m |-> s.m]

route_path(p, matchdict) == route_shape(p, route_subpath(p.m, matchdict))

\* variant: the route variables are not looked at
traverser_path_unrouted(m, environ) ==
    [exc |-> "none",
     path |-> IF "PATH_INFO" \in DOMAIN environ
              THEN or_slash(environ["PATH_INFO"]) ELSE <<SLASH>>,
     subpath |-> <<>>, m |-> m]

\* lines 502-521: the path to walk and the subpath of the result
traverser_path(m, environ) ==
    IF "bfg.routes.matchdict" \in DOMAIN environ
    THEN route_path(route_traverse(m, environ["bfg.routes.matchdict"]),
                    environ["bfg.routes.matchdict"])
    ELSE [exc |-> "none",
          path |-> IF "PATH_INFO" \in DOMAIN environ
                   THEN or_slash(environ["PATH_INFO"]) ELSE <<SLASH>>,
          subpath |-> <<>>, m |-> m]

traverser_call(s, root, environ) ==
    IF s.exc # "none" THEN Raised(s.exc, s.m)
    ELSE traverser_from(traverser_vroot(s.m, environ, s.path), root, s.subpath)

\* ModelGraphTraverser(root)(environ)
ModelGraphTraverser(m, root, environ) ==
    traverser_call(traverser_path(m, environ), root, environ)

(***************************************************************************)
(* _traverse, traverse, find_model                                         *)
(***************************************************************************)
\* ModelGraphTraverser is the ITraverserFactory registered for the graph's
\* nodes; its result is a dict and is returned as it is (line 281).
_traverse(m, model, environ) == ModelGraphTraverser(m, model, environ)

(***************************************************************************)
(* _traverse with a traverser other than ModelGraphTraverser: what the     *)
(* traverser returned is result.v, a dictionary if result.dict and a tuple *)
(* otherwise.                                                              *)
(***************************************************************************)
\* variant: no warning is made
deprecation_warning_none(result) == None

\* lines 292-297: the message, of which the number of arguments is kept
deprecation_warning(result) == <<Len(result)>>

\* lines 299-302
UpconvertedDict(ctx, view_name, subpath, traversed, vroot, vroot_path, warning) ==
    [context |-> ctx, view_name |-> view_name, subpath |-> subpath,
     traversed |-> traversed, virtual_root |-> vroot,
     virtual_root_path |-> vroot_path, root |-> None,
     _deprecation_warning |-> warning]

\* lines 279-303
_traverse_result(result) ==
    IF result.dict THEN result.v
    ELSE IF Len(result.v) = 6
    THEN UpconvertedDict(result.v[1], result.v[2], result.v[3], result.v[4],
                         result.v[5], result.v[6], deprecation_warning(result.v))
    ELSE UpconvertedDict(result.v[1], result.v[2], result.v[3], None, None,
                         None, deprecation_warning(result.v))

\* unpacking a tuple of neither six nor three values raises ValueError
_traverse_with(m, result) ==
    IF ~result.dict /\ Len(result.v) \notin {3, 6}
    THEN Raised("ValueError", m)
    ELSE [exc |-> "none", val |-> _traverse_result(result), m |-> m]

\* lines 257-266: the path as a string
traverse_path(m, path) ==
    IF ~path.iter THEN [val |-> path.v, m |-> m]
    ELSE IF path.v = <<>> THEN [val |-> EMPTY, m |-> m]
    ELSE join_quoted(quote_path_segments(m, path.v))

\* variant: an absolute path too is walked from the model given
traverse_from_model(p, model) == _traverse(p.m, model, [PATH_INFO |-> p.val])

\* lines 268-271
traverse_from(p, model) ==
    _traverse(p.m,
              IF p.val # EMPTY /\ p.val[1] = SLASH THEN find_root(model) ELSE model,
              [PATH_INFO |-> p.val])

traverse(m, model, path) == traverse_from(traverse_path(m, path), model)

\* lines 75-79: the node is returned in val; a KeyError carries the two
\* values its message names.  D is kept beside the outcome.
find_model_from(D) ==
    IF D.exc # "none"
    THEN [exc |-> D.exc, val |-> 0, args |-> <<>>, m |-> D.m, D |-> D]
    ELSE IF D.val.view_name # EMPTY
    THEN [exc |-> "KeyError", val |-> 0,
          args |-> <<D.val.context, D.val.view_name>>, m |-> D.m, D |-> D]
    ELSE [exc |-> "none", val |-> D.val.context, args |-> <<>>, m |-> D.m,
          D |-> D]

find_model(m, model, path) == find_model_from(traverse(m, model, path))

(***************************************************************************)
(* TraversalContextURL(context, request).virtual_root(): the request has   *)
(* an environ and, once the router has set it, a root.                     *)
(***************************************************************************)
\* lines 593-603
TraversalContextURL_virtual_root(m, context, request) ==
    IF VH_ROOT_KEY \in DOMAIN request.environ
    THEN find_model(m, context, [iter |-> FALSE, v |-> request.environ[VH_ROOT_KEY]])
    ELSE IF "root" \in DOMAIN request
    THEN [exc |-> "none", val |-> request.root, m |-> m]
    ELSE [exc |-> "none", val |-> find_root(context), m |-> m]

\* lines 376-377, the adapter being TraversalContextURL
virtual_root(m, model, request) == TraversalContextURL_virtual_root(m, model, request)

(***************************************************************************)
(* pyramid.events.BeforeRender: the operations take the dictionary         *)
(* self._system and give it back in field system as they leave it.         *)
(***************************************************************************)
\* variant: the name is not looked for
BeforeRender_setitem_unchecked(system, name, value) ==
    [exc |-> "none", val |-> None, system |-> (name :> value) @@ system]

\* __init__, line 193
BeforeRender_init(system) == _system = system

\* __setitem__, lines 199-201
BeforeRender_setitem(system, name, value) ==
    IF name \in DOMAIN system
    THEN [exc |-> "KeyError", val |-> None, system |-> system]
    ELSE [exc |-> "none", val |-> None, system |-> (name :> value) @@ system]

\* update, lines 207-208: items is d.items(), in the order the dictionary
\* gives them
RECURSIVE BeforeRender_update_rest(_, _)
RECURSIVE BeforeRender_update(_, _)
BeforeRender_update(system, items) ==
    IF items = <<>> THEN [exc |-> "none", val |-> None, system |-> system]
    ELSE BeforeRender_update_rest(
             BeforeRender_setitem(system, Head(items)[1], Head(items)[2]),
             Tail(items))

BeforeRender_update_rest(r, items) ==
    IF r.exc # "none" THEN r ELSE BeforeRender_update(r.system, items)

\* get, line 223: self._system.get(k)
BeforeRender_get(system, k, default) ==
    [exc |-> "none", val |-> IF k \in DOMAIN system THEN system[k] ELSE None,
     system |-> system]

(***************************************************************************)
(* Inputs                                                                  *)
(***************************************************************************)
\* slash-separated pieces of a request path
MaxPieces == 3

\* pieces or elements of a path given to find_model
MaxFindPieces == 2

SeqsUpTo(S, n) == UNION {[1..k -> S] : k \in 0..n}

\* '/' followed by the pieces joined with '/'
Absolute(pieces) == <<SLASH>> \o join(<<SLASH>>, pieces)

A == Str(<<"a">>)
B == Str(<<"b">>)
MARKED_A == Str(<<"@", "@", "a">>)
MARKER_ONLY == Str(<<"@", "@">>)
SLASH_PERCENT_SPACE == Str(<<"/", "%", " ">>)
N_TILDE == <<241>>
PERCENT_FF == Str(<<"%", "F", "F">>)
PERCENT_2E == Str(<<"%", "2", "E">>)
PERCENT_20 == Str(<<"%", "2", "0">>)

\* names of the nodes of the graphs walked, and pieces of the paths walked
WalkNames == {A, B, MARKED_A}
WalkPieces == {A, B, MARKED_A, MARKER_ONLY, DOTDOT}
VRootHeaders == {<<SLASH>>, Absolute(<<A>>), Absolute(<<A, B>>)}

\* names of the nodes of the graphs whose paths are generated and resolved
ResolveNames == {A, N_TILDE, DOT, DOTDOT, MARKED_A, SLASH_PERCENT_SPACE}
ExtraElements == {<<>>, <<SLASH_PERCENT_SPACE>>, <<A, EMPTY>>}

\* pieces of the raw paths decoded
CodecPieces == {EMPTY, A, B, DOT, DOTDOT, PERCENT_2E, PERCENT_20, PERCENT_FF}

\* the graphs over a set of names: the root is named root_name, and no two
\* children of a node have the same name
Graphs(S, root_name) ==
    {g \in [Node -> S \cup {root_name}] :
        /\ g[ROOT] = root_name
        /\ \A n \in Node \ {ROOT} : g[n] \in S
        /\ \A n1, n2 \in Node \ {ROOT} :
               (n1 # n2 /\ ParentOf(n1) = ParentOf(n2)) => g[n1] # g[n2]}

DefaultGraph == [n \in Node |-> IF n = ROOT THEN EMPTY ELSE <<Ord("a") + n - 2>>]

(***************************************************************************)
(* Initial states: the graph is built, the caches are empty                *)
(***************************************************************************)
InitCaches ==
    /\ path_cache = <<>>
    /\ _segment_cache = <<>>
    /\ _safemaps = FALSE
    /\ pc = "ready"
    /\ call = [op |-> "none"]
    /\ ret = [exc |-> "none"]
    /\ history = [recency |-> <<>>, evicted |-> {}]
    /\ threads = [t \in Thread |-> IdleThread]
    /\ _system = <<>>

InitCodec == names = DefaultGraph /\ InitCaches

InitWalk == names \in Graphs(WalkNames, EMPTY) /\ InitCaches

InitResolve ==
    /\ \E root_name \in {EMPTY, None} : names \in Graphs(ResolveNames, root_name)
    /\ InitCaches

(***************************************************************************)
(* Actions: one call of one operation.  call is the call made, ret what it *)
(* returned or raised, and the caches are left as the call leaves them.    *)
(***************************************************************************)
Outcome(r) == [k \in DOMAIN r \ {"m"} |-> r[k]]

Leaves(c, r) ==
    /\ pc' = "done"
    /\ call' = c
    /\ ret' = Outcome(r)
    /\ path_cache' = r.m.path_cache
    /\ _segment_cache' = r.m.segment_cache
    /\ _safemaps' = r.m.safemaps
    /\ UNCHANGED <<names, threads, _system>>

Returns(c, r) == Leaves(c, r) /\ UNCHANGED history

\* the result of an operation that touches no cache
Pure(val) == [exc |-> "none", val |-> val, m |-> Caches]

FOO == Str(<<"f", "o", "o">>)
BAR == Str(<<"b", "a", "r">>)
BAZ == Str(<<"b", "a", "z">>)
HELLO == Str(<<"h", "e", "l", "l", "o">>)
MY_ARCHIVES_QUOTED == Str(<<"m", "y", "%", "2", "0", "a", "r", "c", "h", "i", "v", "e", "s">>)
MY_ARCHIVES == Str(<<"m", "y", " ", "a", "r", "c", "h", "i", "v", "e", "s">>)

\* the examples of the docstring of traversal_path
FOO_BAR_BAZ_SLASHES == Absolute(<<FOO, EMPTY, BAR, EMPTY, BAZ, EMPTY>>)
FOO_BAR_BAZ_UP == Absolute(<<FOO, BAR, BAZ, DOTDOT>>)
MY_ARCHIVES_HELLO == Absolute(<<MY_ARCHIVES_QUOTED, HELLO>>)

ExamplePaths == {FOO_BAR_BAZ_SLASHES, FOO_BAR_BAZ_UP, MY_ARCHIVES_HELLO}

RawPaths ==
    {first \o join(<<SLASH>>, pieces) \o last :
        first \in {EMPTY, <<SLASH>>}, last \in {EMPTY, <<SLASH>>},
        pieces \in SeqsUpTo(CodecPieces, MaxPieces)}
    \cup ExamplePaths

\* traversal_path(path)
TraversalPath ==
    \E path \in RawPaths :
        /\ pc = "ready"
        /\ Returns([op |-> "traversal_path", path |-> path],
                   lru_cached(Caches, path))

\* the raw paths given to traversal_path call after call; the last two raise
CachePaths ==
    {<<SLASH>>, Absolute(<<A>>), Absolute(<<B>>), Absolute(<<A, B>>),
     Absolute(<<A, DOTDOT, B>>), Absolute(<<PERCENT_20>>),
     Absolute(<<DOTDOT>>), Absolute(<<PERCENT_FF>>)}

CachedKeys(cache) == {cache[i].key : i \in DOMAIN cache}

Without(s, x) == SelectSeq(s, LAMBDA y : y # x)

\* what the observer notes of a call of traversal_path(path) with outcome r
Observed(path, r) ==
    [recency |-> IF r.exc = "none"
                 THEN Append(Without(history.recency, path), path)
                 ELSE history.recency,
     evicted |-> history.evicted
                     \cup (CachedKeys(path_cache) \ CachedKeys(r.m.path_cache))]

TraversalPathLeaves(path, r) ==
    /\ Leaves([op |-> "traversal_path", path |-> path], r)
    /\ history' = Observed(path, r)

(***************************************************************************)
(* quote_path_segment called by several threads.  A step is what one       *)
(* thread does between two accesses of the module dictionaries: a          *)
(* dictionary lookup or store is one bytecode and is atomic.               *)
(***************************************************************************)
QuotedSegments == {A, SLASH_PERCENT_SPACE, N_TILDE}

ThreadStep(t, next) ==
    /\ threads' = [threads EXCEPT ![t] = next]
    /\ UNCHANGED <<names, path_cache, pc, call, ret, history, _system>>

\* a thread enters quote_path_segment(segment)
QuoteCall ==
    \E t \in Thread, segment \in QuotedSegments :
        /\ threads[t].pc = "idle"
        /\ ThreadStep(t, [IdleThread EXCEPT !.pc = "lookup", !.segment = segment])
        /\ UNCHANGED <<_segment_cache, _safemaps>>

\* line 481: return _segment_cache[segment]
QuoteHit ==
    \E t \in Thread :
        /\ threads[t].pc = "lookup"
        /\ threads[t].segment \in DOMAIN _segment_cache
        /\ ThreadStep(t, [threads[t] EXCEPT !.pc = "done",
                             !.result = _segment_cache[threads[t].segment]])
        /\ UNCHANGED <<_segment_cache, _safemaps>>

\* line 482: except KeyError
QuoteMiss ==
    \E t \in Thread :
        /\ threads[t].pc = "lookup"
        /\ threads[t].segment \notin DOMAIN _segment_cache
        /\ ThreadStep(t, [threads[t] EXCEPT !.pc = "quote"])
        /\ UNCHANGED <<_segment_cache, _safemaps>>

\* _url_quote, line 677: safe_map = _safemaps[cachekey], found or not
QuoteReadTable ==
    \E t \in Thread :
        /\ threads[t].pc = "quote"
        /\ ThreadStep(t, [threads[t] EXCEPT !.pc = "map", !.built = _safemaps])
        /\ UNCHANGED <<_segment_cache, _safemaps>>

\* _url_quote, lines 678-689: the text is returned as it is or mapped, after
\* the table was built and stored if it was not found
QuoteMap ==
    \E t \in Thread :
        /\ threads[t].pc = "map"
        /\ ThreadStep(t, [threads[t] EXCEPT !.pc = "store",
                             !.result = _url_quote(threads[t].built,
                                                   utf8_encode(threads[t].segment))])
        /\ _safemaps' = TRUE
        /\ UNCHANGED _segment_cache

\* lines 489-490: _segment_cache[segment] = result; return result
QuoteStore ==
    \E t \in Thread :
        /\ threads[t].pc = "store"
        /\ ThreadStep(t, [threads[t] EXCEPT !.pc = "done"])
        /\ _segment_cache' =
               quote_store(Caches, threads[t].segment, threads[t].result).m.segment_cache
        /\ UNCHANGED _safemaps

\* the caller has the result; the thread may call again
QuoteReturn ==
    \E t \in Thread :
        /\ threads[t].pc = "done"
        /\ ThreadStep(t, IdleThread)
        /\ UNCHANGED <<_segment_cache, _safemaps>>

(***************************************************************************)
(* BeforeRender(system): subscribers call one operation after another on   *)
(* the event of a rendering.                                               *)
(***************************************************************************)
GlobalNames == {"context", "request", "mykey"}

GlobalValues == {A, B}

\* the renderer globals the event is made with
InitRender ==
    /\ names = DefaultGraph
    /\ InitCaches
    /\ \E system \in {<<>>, [context |-> A], [context |-> B, request |-> A]} :
           BeforeRender_init(system)

RenderLeaves(c, r) ==
    /\ pc' = "done"
    /\ call' = c
    /\ ret' = [exc |-> r.exc, val |-> r.val]
    /\ _system' = r.system
    /\ UNCHANGED <<names, path_cache, _segment_cache, _safemaps, history, threads>>

\* event[name] = value
SetItem ==
    \E name \in GlobalNames, value \in GlobalValues :
        /\ pc \in {"ready", "done"}
        /\ RenderLeaves([op |-> "__setitem__", name |-> name, value |-> value],
                        BeforeRender_setitem(_system, name, value))

\* the dictionaries given to update, and the orders of their items
UpdateDicts ==
    UNION {[S -> GlobalValues] : S \in {T \in SUBSET GlobalNames : Cardinality(T) <= 2}}

ItemsOf(d) ==
    {items \in [1..Cardinality(DOMAIN d) -> (DOMAIN d) \X GlobalValues] :
        /\ \A i, j \in DOMAIN items : i # j => items[i][1] # items[j][1]
        /\ \A i \in DOMAIN items : items[i][2] = d[items[i][1]]}

\* event.update(d)
Update ==
    \E d \in UpdateDicts :
        \E items \in ItemsOf(d) :
            /\ pc \in {"ready", "done"}
            /\ RenderLeaves([op |-> "update", d |-> d, items |-> items],
                            BeforeRender_update(_system, items))

\* event.get(k, default)
Get ==
    \E k \in GlobalNames, default \in GlobalValues \cup {None} :
        /\ pc \in {"ready", "done"}
        /\ RenderLeaves([op |-> "get", k |-> k, default |-> default],
                        BeforeRender_get(_system, k, default))

(***************************************************************************)
(* virtual_root(model, request)                                            *)
(***************************************************************************)
\* header values: absolute, relative and empty
VRootValues == VRootHeaders \cup {A, Str(<<"a", "/", "b">>), B, EMPTY, Absolute(<<B>>)}

VirtualRootReturns(model, request) ==
    Returns([op |-> "virtual_root", model |-> model, request |-> request],
            virtual_root(Caches, model, request))

\* no header, and the request has its root
VirtualRootOfRequest ==
    \E model \in Node, root \in Node :
        /\ pc = "ready"
        /\ VirtualRootReturns(model, [environ |-> <<>>, root |-> root])

\* no header, and the request has no root
VirtualRootFound ==
    \E model \in Node :
        /\ pc = "ready"
        /\ VirtualRootReturns(model, [environ |-> <<>>])

\* the header is present
VirtualRootOfHeader ==
    \E model \in Node, vroot_path \in VRootValues, with_root \in BOOLEAN :
        /\ pc = "ready"
        /\ VirtualRootReturns(model,
               IF with_root
               THEN [environ |-> [HTTP_X_VHM_ROOT |-> vroot_path], root |-> ROOT]
               ELSE [environ |-> [HTTP_X_VHM_ROOT |-> vroot_path]])

(***************************************************************************)
(* _traverse over traversers of each interface                             *)
(***************************************************************************)
ViewNames == {EMPTY, A}

Subpaths == {<<>>, <<B>>, <<B, A>>}

TraverseReturns(dict, v) ==
    Returns([op |-> "_traverse", dict |-> dict, v |-> v],
            _traverse_with(Caches, [dict |-> dict, v |-> v]))

\* the traverser returns a dictionary
TraverseDict ==
    \E ctx \in Node, view_name \in ViewNames, subpath \in Subpaths,
       traversed \in Subpaths, vroot \in Node :
        /\ pc = "ready"
        /\ TraverseReturns(TRUE, ResultDict(ctx, view_name, subpath, traversed,
                                            vroot, <<>>, ROOT))

\* the traverser returns (context, view_name, subpath)
TraverseTuple3 ==
    \E ctx \in Node, view_name \in ViewNames, subpath \in Subpaths :
        /\ pc = "ready"
        /\ TraverseReturns(FALSE, <<ctx, view_name, subpath>>)

\* the traverser returns (context, view_name, subpath, traversed, vroot,
\* vroot_path)
TraverseTuple6 ==
    \E ctx \in Node, view_name \in ViewNames, subpath \in Subpaths,
       traversed \in Subpaths, vroot \in Node :
        /\ pc = "ready"
        /\ TraverseReturns(FALSE, <<ctx, view_name, subpath, traversed, vroot,
                                    Prefix(traversed, 1)>>)

\* the traverser returns a tuple of four values
TraverseTuple4 ==
    \E ctx \in Node, view_name \in ViewNames, subpath \in Subpaths,
       traversed \in Subpaths :
        /\ pc = "ready"
        /\ TraverseReturns(FALSE, <<ctx, view_name, subpath, traversed>>)

\* traversal_path(path), one call after another on the same cache
TraversalPathAgain ==
    \E path \in CachePaths :
        /\ pc \in {"ready", "done"}
        /\ TraversalPathLeaves(path, lru_cached(Caches, path))

\* text segments of a decoded path: with reserved characters, with text that
\* reads like an escape, with '@@', dots, and non-ASCII text
EURO == <<8364>>
THREE_DOTS == Str(<<".", ".", ".">>)
DecodedSegments ==
    {A, SLASH_PERCENT_SPACE, N_TILDE, EURO, PERCENT_2E, MARKED_A, THREE_DOTS}

\* traversal_path of the joined segments q.val, which are kept beside the
\* outcome
DecodeEncoded(q) ==
    [encoded |-> q.val] @@ lru_cached(q.m, join(<<SLASH>>, q.val))

\* traversal_path('/'.join([quote_path_segment(x) for x in path]))
EncodeDecode ==
    \E path \in SeqsUpTo(DecodedSegments, MaxPieces) :
        /\ pc = "ready"
        /\ Returns([op |-> "traversal_path(quoted)", path |-> path],
                   DecodeEncoded(quote_path_segments(Caches, path)))

\* quote_path_segment(segment)
QuotePathSegment ==
    \E segment \in ResolveNames \cup {EMPTY} :
        /\ pc = "ready"
        /\ Returns([op |-> "quote_path_segment", segment |-> segment],
                   [exc |-> "none"] @@ quote_path_segment(Caches, segment))

TraverserReturns(environ) ==
    Returns([op |-> "ModelGraphTraverser", root |-> ROOT, environ |-> environ],
            ModelGraphTraverser(Caches, ROOT, environ))

WalkPaths == {Absolute(pieces) : pieces \in SeqsUpTo(WalkPieces, MaxPieces)}

PlainEnvirons == {<<>>} \cup {[PATH_INFO |-> path] : path \in WalkPaths \cup {EMPTY}}

VhostEnvirons ==
    {[PATH_INFO |-> path, HTTP_X_VHM_ROOT |-> vroot_path] :
        path \in WalkPaths \cup {B}, vroot_path \in VRootHeaders}

RouteTraverse ==
    {[iter |-> FALSE, v |-> Absolute(<<A, B>>)], [iter |-> TRUE, v |-> <<A, B>>],
     [iter |-> TRUE, v |-> <<>>]}

RouteSubpath ==
    {[iter |-> TRUE, v |-> <<B>>], [iter |-> FALSE, v |-> Absolute(<<B, A>>)],
     [iter |-> FALSE, v |-> Absolute(<<DOTDOT>>)]}

Matchdicts ==
    {<<>>} \cup {[traverse |-> t] : t \in RouteTraverse}
        \cup {[subpath |-> s] : s \in RouteSubpath}
        \cup {[traverse |-> t, subpath |-> s] : t \in RouteTraverse, s \in RouteSubpath}

RouteEnvirons ==
    {("bfg.routes.matchdict" :> matchdict) @@ rest :
        matchdict \in Matchdicts,
        rest \in {[PATH_INFO |-> Absolute(<<B>>)],
                  [HTTP_X_VHM_ROOT |-> Absolute(<<A>>)]}}

\* ModelGraphTraverser(root)(environ): a request with no virtual root
TraverserCall ==
    \E environ \in PlainEnvirons : pc = "ready" /\ TraverserReturns(environ)

\* a request under a virtual root
TraverserCallVhost ==
    \E environ \in VhostEnvirons : pc = "ready" /\ TraverserReturns(environ)

\* a request matched by a route: bfg.routes.matchdict is in the environment
TraverserCallRoute ==
    \E environ \in RouteEnvirons : pc = "ready" /\ TraverserReturns(environ)

FindStrings ==
    {first \o join(<<SLASH>>, pieces) :
        first \in {EMPTY, <<SLASH>>},
        pieces \in SeqsUpTo(WalkPieces, MaxFindPieces)}

FindTuples ==
    {first \o elements :
        first \in {<<>>, <<EMPTY>>},
        elements \in SeqsUpTo(WalkNames, MaxFindPieces)}

\* find_model(model, path), path a string
FindModel ==
    \E model \in Node, path \in FindStrings :
        /\ pc = "ready"
        /\ Returns([op |-> "find_model", model |-> model, iter |-> FALSE,
                    path |-> path],
                   find_model(Caches, model, [iter |-> FALSE, v |-> path]))

\* find_model(model, path), path a tuple
FindModelTuple ==
    \E model \in Node, path \in FindTuples :
        /\ pc = "ready"
        /\ Returns([op |-> "find_model", model |-> model, iter |-> TRUE,
                    path |-> path],
                   find_model(Caches, model, [iter |-> TRUE, v |-> path]))

\* find_root(model)
FindRoot ==
    \E model \in Node :
        /\ pc = "ready"
        /\ Returns([op |-> "find_root", model |-> model], Pure(find_root(model)))

\* model_path_tuple(model, *elements)
ModelPathTuple ==
    \E model \in Node, elements \in ExtraElements :
        /\ pc = "ready"
        /\ Returns([op |-> "model_path_tuple", model |-> model,
                    elements |-> elements],
                   Pure(model_path_tuple(model, elements)))

\* model_path(model, *elements)
ModelPath ==
    \E model \in Node, elements \in ExtraElements :
        /\ pc = "ready"
        /\ Returns([op |-> "model_path", model |-> model, elements |-> elements],
                   [exc |-> "none"] @@ model_path(Caches, model, elements))

\* find_model(root, path) for the path p generated from model
FindGenerated(op, model, p, iter) ==
    Returns([op |-> op, model |-> model, path |-> p.val],
            find_model(p.m, ROOT, [iter |-> iter, v |-> p.val]))

\* find_model(root, model_path(model))
FindModelOfModelPath ==
    \E model \in Node :
        /\ pc = "ready"
        /\ FindGenerated("find_model(model_path)", model,
                         model_path(Caches, model, <<>>), FALSE)

\* find_model(root, model_path_tuple(model))
FindModelOfModelPathTuple ==
    \E model \in Node :
        /\ pc = "ready"
        /\ FindGenerated("find_model(model_path_tuple)", model,
                         Pure(model_path_tuple(model, <<>>)), TRUE)

(***************************************************************************)
(* Specifications                                                          *)
(***************************************************************************)
NextCodec == TraversalPath \/ QuotePathSegment \/ EncodeDecode

NextWalk == TraverserCall \/ TraverserCallVhost \/ TraverserCallRoute

NextFind == FindModel \/ FindModelTuple

NextResolve ==
    \/ FindRoot
    \/ ModelPathTuple
    \/ ModelPath
    \/ FindModelOfModelPath
    \/ FindModelOfModelPathTuple

NextCache == TraversalPathAgain

NextRender == SetItem \/ Update \/ Get

\* the operations of a BeforeRender event, one after another
SpecRender == InitRender /\ [][NextRender]_vars

NextVirtualRoot == VirtualRootOfRequest \/ VirtualRootFound \/ VirtualRootOfHeader

\* virtual_root from every node of a graph
SpecVirtualRoot == InitWalk /\ [][NextVirtualRoot]_vars

NextLegacy == TraverseDict \/ TraverseTuple3 \/ TraverseTuple6 \/ TraverseTuple4

\* _traverse over what traversers of the old and new interfaces return
SpecLegacy == InitCodec /\ [][NextLegacy]_vars

NextQuote ==
    \/ QuoteCall
    \/ QuoteHit
    \/ QuoteMiss
    \/ QuoteReadTable
    \/ QuoteMap
    \/ QuoteStore
    \/ QuoteReturn

\* quote_path_segment under any interleaving of the threads
SpecQuote == InitCodec /\ [][NextQuote]_vars

\* the path cache under any sequence of calls of traversal_path
SpecCache == InitCodec /\ [][NextCache]_vars

\* the path codec: raw paths decoded, segments quoted
SpecCodec == InitCodec /\ [][NextCodec]_vars

\* the graph walker on the requests of a graph
SpecWalk == InitWalk /\ [][NextWalk]_vars

\* find_model on strings and tuples, from every node
SpecFind == InitWalk /\ [][NextFind]_vars

\* paths generated from nodes and resolved again
SpecResolve == InitResolve /\ [][NextResolve]_vars

(***************************************************************************)
(* What the claims speak of                                                *)
(***************************************************************************)
Called(op) == pc = "done" /\ call.op = op

\* the segment begins with the two characters '@@'
HasMarker(segment) ==
    Len(segment) >= 2 /\ segment[1] = Ord("@") /\ segment[2] = Ord("@")

IsPrefix(s, t) == Len(s) <= Len(t) /\ SubSeq(t, 1, Len(s)) = s

\* how many leading segments of segs resolve, one after the other from node,
\* by child lookups, up to the first segment that is marked, that the node
\* reached cannot look up, or that it has no child for
RECURSIVE Descents(_, _)
Descents(node, segs) ==
    IF \/ segs = <<>>
       \/ HasMarker(Head(segs))
       \/ ~HasGetitem(node)
       \/ getitem(node, Head(segs)) \notin Node
    THEN 0
    ELSE 1 + Descents(getitem(node, Head(segs)), Tail(segs))

\* the node reached from node by the child lookups of segs, which all resolve
RECURSIVE NodeAt(_, _)
NodeAt(node, segs) ==
    IF segs = <<>> THEN node ELSE NodeAt(getitem(node, Head(segs)), Tail(segs))

\* a request with no route variables; with no virtual root header either
Unrouted ==
    Called("ModelGraphTraverser") /\ "bfg.routes.matchdict" \notin DOMAIN call.environ

Plain == Unrouted /\ VH_ROOT_KEY \notin DOMAIN call.environ

Vhosted == Unrouted /\ VH_ROOT_KEY \in DOMAIN call.environ

\* the request path, '/' when it is absent or empty
RequestPath ==
    IF "PATH_INFO" \in DOMAIN call.environ /\ call.environ["PATH_INFO"] # EMPTY
    THEN call.environ["PATH_INFO"]
    ELSE <<SLASH>>

\* the header value followed by the request path
CombinedPath ==
    IF VH_ROOT_KEY \in DOMAIN call.environ
    THEN call.environ[VH_ROOT_KEY] \o RequestPath
    ELSE RequestPath

\* C1: in a walk with no virtual root header, if the first k segments of the
\* normalized path resolve by successive child lookups and segment k does not
\* (no such child, or the node reached has no child lookup), the result has
\* context = the node after k descents, traversed = the first k segments,
\* view_name = segment k and subpath = the segments after it, and nothing is
\* raised; traversed, view_name and subpath together are the whole path.
C1_StopAtUnresolvedSegment ==
    (Plain /\ traversal_path(RequestPath).exc = "none") =>
        LET segs == traversal_path(RequestPath).val
            k == Descents(ROOT, segs)
        IN (k < Len(segs) /\ ~HasMarker(segs[k + 1])) =>
               /\ ret.exc = "none"
               /\ ret.val.context = NodeAt(ROOT, Prefix(segs, k))
               /\ ret.val.traversed = Prefix(segs, k)
               /\ ret.val.view_name = segs[k + 1]
               /\ ret.val.subpath = Suffix(segs, k + 1)
               /\ ret.val.traversed \o <<ret.val.view_name>> \o ret.val.subpath = segs

\* two segments resolve and the third has no child in the container reached
C1_Witness ==
    /\ Plain
    /\ ret.exc = "none"
    /\ Len(ret.val.traversed) = 2
    /\ ret.val.context \in Node
    /\ ParentOf(ParentOf(ret.val.context)) = ROOT
    /\ HasGetitem(ret.val.context)
    /\ ret.val.view_name # EMPTY
    /\ ~HasMarker(traversal_path(RequestPath).val[3])
    /\ ret.val.view_name = traversal_path(RequestPath).val[3]

\* C2: in every result of the walker, with or without a virtual root header
\* and also when the walk stops early, traversed is the prefix of the
\* normalized combined path consumed by successful child lookups, as long as
\* the number of descents made, and view_name followed by subpath is the rest
\* (view_name being the first unconsumed segment, less its marker if marked).
C2_TraversedIsConsumedPrefix ==
    (Unrouted /\ ret.exc = "none") =>
        LET segs == traversal_path(CombinedPath).val
            d == Descents(ROOT, segs)
        IN /\ ret.val.traversed = Prefix(segs, d)
           /\ Len(ret.val.traversed) =
                  Cardinality({i \in DOMAIN ret.lookups :
                                  getitem(ret.lookups[i][1], ret.lookups[i][2]) \in Node})
           /\ IF d = Len(segs)
              THEN ret.val.view_name = EMPTY /\ ret.val.subpath = <<>>
              ELSE /\ ret.val.subpath = Suffix(segs, d + 1)
                   /\ ret.val.view_name =
                          IF HasMarker(segs[d + 1]) THEN Suffix(segs[d + 1], 2)
                          ELSE segs[d + 1]

\* C3: a segment that begins with '@@' stops the descent at the current node:
\* context is that node, view_name is the segment after the marker, and no
\* child lookup is made for the segment, whether or not the node has a child
\* of that name.
C3_MarkerStopsDescent ==
    (Unrouted /\ ret.exc = "none") =>
        LET segs == traversal_path(CombinedPath).val
            d == Descents(ROOT, segs)
        IN (d < Len(segs) /\ HasMarker(segs[d + 1])) =>
               /\ ret.val.context = NodeAt(ROOT, Prefix(segs, d))
               /\ ret.val.view_name = Suffix(segs[d + 1], 2)
               /\ Len(ret.lookups) = d
               /\ \A i \in DOMAIN ret.lookups :
                      ret.lookups[i] = <<NodeAt(ROOT, Prefix(segs, i - 1)), segs[i]>>

\* the walk stops at a marked segment though the node reached, a child of the
\* root, has a child of exactly that name
C3_Witness ==
    /\ Unrouted
    /\ ret.exc = "none"
    /\ ret.val.context \in Children(ROOT)
    /\ Len(ret.lookups) = 1
    /\ ret.val.view_name = A
    /\ \E c \in Children(ret.val.context) : names[c] = MARKED_A

\* C4: under a virtual root header whose segments all resolve as successive
\* children of the physical root, virtual_root is the node at the end of the
\* header prefix, virtual_root_path is the decoded header, root is the
\* physical root, and traversed begins with the header segments followed by
\* the segments of the request path that were descended.
C4_VirtualRootAtHeaderPrefix ==
    (Vhosted /\ ret.exc = "none") =>
        LET hdr == traversal_path(call.environ[VH_ROOT_KEY])
            req == traversal_path(RequestPath)
        IN (hdr.exc = "none" /\ Descents(ROOT, hdr.val) = Len(hdr.val)) =>
               /\ ret.val.virtual_root = NodeAt(ROOT, hdr.val)
               /\ ret.val.virtual_root_path = hdr.val
               /\ ret.val.root = ROOT
               /\ IsPrefix(hdr.val, ret.val.traversed)
               /\ req.exc = "none" =>
                      IsPrefix(hdr.val \o Prefix(req.val,
                                   Descents(NodeAt(ROOT, hdr.val), req.val)),
                               ret.val.traversed)

\* the pieces of a raw path, unquoted
RawPieces(path) ==
    LET pieces == split(lstrip(rstrip(path, SLASH), SLASH), SLASH)
    IN [i \in DOMAIN pieces |-> unquote(pieces[i])]

\* decoding in which a '..' met with nothing accepted so far does nothing
RECURSIVE DecodeIgnoringExcess(_, _)
DecodeIgnoringExcess(pieces, out) ==
    IF pieces = <<>> THEN [exc |-> "none", val |-> out]
    ELSE IF Head(pieces) = EMPTY \/ Head(pieces) = DOT
    THEN DecodeIgnoringExcess(Tail(pieces), out)
    ELSE IF Head(pieces) = DOTDOT
    THEN DecodeIgnoringExcess(Tail(pieces), Prefix(out, Len(out) - 1))
    ELSE IF ~utf8_decode(Head(pieces)).ok
    THEN [exc |-> "TypeError", val |-> <<>>]
    ELSE DecodeIgnoringExcess(Tail(pieces),
                              Append(out, utf8_decode(Head(pieces)).val))

\* C5: in traversal_path a '..' met while nothing is accepted so far is a
\* no-op: the call does not fail for it and goes on with the segments left.
C5_ExcessDotDotIsNoOp ==
    Called("traversal_path") =>
        ret = DecodeIgnoringExcess(RawPieces(call.path), <<>>)

\* what is left of the pieces, read from the last to the first, when each
\* '..' cancels the nearest piece before it that is not cancelled yet;
\* pending counts the '..' still to cancel one
RECURSIVE Surviving(_, _)
Surviving(pieces, pending) ==
    IF pieces = <<>> THEN <<>>
    ELSE LET last == pieces[Len(pieces)]
             front == Prefix(pieces, Len(pieces) - 1)
         IN IF last = EMPTY \/ last = DOT THEN Surviving(front, pending)
            ELSE IF last = DOTDOT THEN Surviving(front, pending + 1)
            ELSE IF pending > 0 THEN Surviving(front, pending - 1)
            ELSE Append(Surviving(front, 0), utf8_decode(last).val)

\* C6: where traversal_path returns, the tuple has no empty, '.' or '..'
\* segment and is the pieces of the raw path in their order, the empty and
\* '.' ones dropped and each '..' deleting the piece accepted last before it.
C6_NormalizedPath ==
    (Called("traversal_path") /\ ret.exc = "none") =>
        /\ \A i \in DOMAIN ret.val : ret.val[i] \notin {EMPTY, DOT, DOTDOT}
        /\ ret.val = Surviving(RawPieces(call.path), 0)
        /\ call.path \in {EMPTY, <<SLASH>>} => ret.val = <<>>
        /\ call.path = FOO_BAR_BAZ_SLASHES => ret.val = <<FOO, BAR, BAZ>>
        /\ call.path = FOO_BAR_BAZ_UP => ret.val = <<FOO, BAR>>
        /\ call.path = MY_ARCHIVES_HELLO => ret.val = <<MY_ARCHIVES, HELLO>>

\* a '..' deletes the quoted segment before it and the trailing slash adds
\* nothing
C6_Witness ==
    /\ Called("traversal_path")
    /\ call.path = Absolute(<<A, PERCENT_20, DOTDOT>>) \o <<SLASH>>
    /\ ret = [exc |-> "none", val |-> <<A>>]

\* a is n or an ancestor of n
RECURSIVE IsAncestorOrSelf(_, _)
IsAncestorOrSelf(a, n) ==
    n \in Node /\ (a = n \/ IsAncestorOrSelf(a, ParentOf(n)))

\* C7: in a tree whose root has the empty name, for every node n
\* find_model(root, model_path(n)) returns n and
\* find_model(root, model_path_tuple(n)) returns n, whatever the names are.
C7_GeneratedPathResolves ==
    ((Called("find_model(model_path)") \/ Called("find_model(model_path_tuple)"))
         /\ names[ROOT] = EMPTY) =>
        ret.exc = "none" /\ ret.val = call.model

\* the path given to find_model is absolute
AbsolutePath ==
    IF call.iter
    THEN call.path # <<>> /\ call.path[1] = EMPTY
    ELSE call.path # EMPTY /\ call.path[1] = SLASH

\* where find_model is to start its walk
StartNode == IF AbsolutePath THEN find_root(call.model) ELSE call.model

\* C8: find_model(node, path) walks from the root of node when the path is
\* absolute and from node itself when it is relative or empty; where the walk
\* ends with an empty view_name it returns the context reached, and otherwise
\* it raises KeyError with the context reached and the unresolved segment,
\* returning no node.
C8_FindModelOutcome ==
    (Called("find_model") /\ ret.D.exc = "none") =>
        /\ ret.D.val.root = StartNode
        /\ ret.D.val.context = NodeAt(StartNode, ret.D.val.traversed)
        /\ IF ret.D.val.view_name = EMPTY
           THEN ret.exc = "none" /\ ret.val = ret.D.val.context
           ELSE /\ ret.exc = "KeyError"
                /\ ret.args = <<ret.D.val.context, ret.D.val.view_name>>
                /\ ret.val \notin Node

\* an absolute path given with a node that is not the root ends in KeyError at
\* a context that is neither the root nor the node given
C8_Witness ==
    /\ Called("find_model")
    /\ call.model # ROOT
    /\ AbsolutePath
    /\ ret.exc = "KeyError"
    /\ ret.args[1] \notin {ROOT, call.model}
    /\ ret.D.val.root = ROOT

\* C9: find_root(node) returns the one node that is node or an ancestor of it
\* and has no parent, for the root too, and find_root of the result is the
\* result.
C9_FindRootIsTheRoot ==
    Called("find_root") =>
        /\ ret.val \in Node
        /\ IsAncestorOrSelf(ret.val, call.model)
        /\ ParentOf(ret.val) \notin Node
        /\ \A a \in Node :
               (IsAncestorOrSelf(a, call.model) /\ ParentOf(a) \notin Node)
                   => a = ret.val
        /\ find_root(ret.val) = ret.val

\* the root is found from a grandchild of it
C9_Witness ==
    /\ Called("find_root")
    /\ ParentOf(call.model) \in Node \ {ROOT}
    /\ ret.val = ROOT
    /\ ret.val # ParentOf(call.model)

\* the names from the root down to n, '' for an absent name
RECURSIVE NamesFromRoot(_)
NamesFromRoot(n) ==
    IF ParentOf(n) \notin Node
    THEN <<IF names[n] = None THEN EMPTY ELSE names[n]>>
    ELSE Append(NamesFromRoot(ParentOf(n)), names[n])

\* each element quoted, the results joined by '/'
QuotedAndJoined(t) ==
    join(<<SLASH>>, [i \in DOMAIN t |-> map_safe_map(utf8_encode(t[i]))])

\* C10: model_path_tuple(node, *extra) is the names of the lineage of node
\* from the root to node, '' for an absent name, followed by the extra
\* elements in their order, and its first element is ''; model_path(node,
\* *extra) is that sequence with each element quoted and joined by '/', which
\* is '/' for the root with no extras and starts with '/' always.
C10_ModelPathOfLineage ==
    /\ Called("model_path_tuple") =>
           /\ ret.val = NamesFromRoot(call.model) \o call.elements
           /\ ret.val[1] = EMPTY
    /\ Called("model_path") =>
           /\ ret.val = or_slash(QuotedAndJoined(NamesFromRoot(call.model) \o call.elements))
           /\ ret.val[1] = SLASH
           /\ (call.model = ROOT /\ call.elements = <<>>) => ret.val = <<SLASH>>

\* the path of a grandchild of a root of absent name, with an extra element
\* that must be quoted
C10_Witness ==
    /\ Called("model_path")
    /\ names[ROOT] = None
    /\ ParentOf(call.model) \in Node \ {ROOT}
    /\ names[call.model] # names[ParentOf(call.model)]
    /\ call.elements = <<SLASH_PERCENT_SPACE>>
    /\ ret.val = <<SLASH>> \o names[ParentOf(call.model)] \o <<SLASH>>
                     \o names[call.model] \o <<SLASH>> \o Str(<<"%", "2", "F", "%", "2", "5", "%", "2", "0">>)

\* the cached path that was used least recently
LeastRecentlyUsed ==
    history.recency[CHOOSE i \in DOMAIN history.recency :
        /\ history.recency[i] \in CachedKeys(path_cache)
        /\ \A j \in 1..(i - 1) : history.recency[j] \notin CachedKeys(path_cache)]

\* every call returns the fresh decode; the cache is within its capacity and
\* holds, one entry a key, fresh decodes only
C11_CacheIsFresh ==
    /\ Called("traversal_path") => ret = traversal_path(call.path)
    /\ Len(path_cache) <= lru_maxsize
    /\ Cardinality(CachedKeys(path_cache)) = Len(path_cache)
    /\ \A i \in DOMAIN path_cache :
           traversal_path(path_cache[i].key) = [exc |-> "none", val |-> path_cache[i].val]

\* what a call does to the keys cached: a hit or a call that raises leaves
\* them, a miss adds its key, in the place of the key used least recently if
\* the cache is full
C11_EvictsLeastRecentlyUsed ==
    CachedKeys(path_cache)' =
        IF ret'.exc # "none" \/ call'.path \in CachedKeys(path_cache)
        THEN CachedKeys(path_cache)
        ELSE IF Len(path_cache) < lru_maxsize
        THEN CachedKeys(path_cache) \cup {call'.path}
        ELSE (CachedKeys(path_cache) \ {LeastRecentlyUsed}) \cup {call'.path}

\* C11: after any sequence of calls of traversal_path on the bounded cache, a
\* call with raw string s returns what a fresh decode of s returns, also when
\* the entry of s was evicted and computed again in between; the entries
\* never number more than the capacity, and an insert into the full cache
\* evicts the entry used least recently.
C11_PathCache == []C11_CacheIsFresh /\ [][C11_EvictsLeastRecentlyUsed]_vars

\* a path that was evicted is decoded again, into the full cache, from which
\* other paths were evicted too
C11_Witness ==
    /\ Called("traversal_path")
    /\ call.path \in history.evicted
    /\ call.path \in CachedKeys(path_cache)
    /\ Len(path_cache) = lru_maxsize
    /\ Cardinality(history.evicted) >= 2
    /\ ret = [exc |-> "none", val |-> <<A, B>>]

\* the encoding of a segment: each byte of its UTF-8 form that is not a
\* letter, a digit, '_', '.' or '-' written as '%' and two hexadecimal digits
RECURSIVE PercentEncoded(_)
PercentEncoded(bytes) ==
    IF bytes = <<>> THEN <<>>
    ELSE (IF Head(bytes) \in always_safe THEN <<Head(bytes)>>
          ELSE <<PERCENT, HexDigits[(Head(bytes) \div 16) + 1],
                 HexDigits[(Head(bytes) % 16) + 1]>>)
         \o PercentEncoded(Tail(bytes))

Encoding(segment) == PercentEncoded(utf8_encode(segment))

\* C12: under any interleaving of concurrent calls of quote_path_segment,
\* every entry of the segment cache maps its key to the encoding of the key,
\* and every call returns (and a call that missed stores) the encoding of its
\* own argument, whether the cache holds the segment or not; two calls racing
\* on one key store the same value.
C12_SegmentCacheUnderRaces ==
    /\ \A segment \in DOMAIN _segment_cache :
           _segment_cache[segment] = Encoding(segment)
    /\ \A t \in Thread :
           threads[t].pc \in {"store", "done"} =>
               threads[t].result = Encoding(threads[t].segment)

\* two threads have missed on the same segment, which must be quoted; one has
\* stored its value and the other, which found the quoting table cached, is
\* about to store
C12_Witness ==
    \E t1, t2 \in Thread :
        /\ t1 # t2
        /\ threads[t1].segment = SLASH_PERCENT_SPACE
        /\ threads[t2].segment = SLASH_PERCENT_SPACE
        /\ threads[t1].pc = "done"
        /\ threads[t2].pc = "store"
        /\ threads[t2].built
        /\ SLASH_PERCENT_SPACE \in DOMAIN _segment_cache
        /\ threads[t2].result = _segment_cache[SLASH_PERCENT_SPACE]

ResultFields ==
    {"context", "view_name", "subpath", "traversed", "virtual_root",
     "virtual_root_path", "root"}

\* C13: _traverse turns a tuple (context, view_name, subpath) into a result
\* with those three fields and traversed, virtual_root, virtual_root_path and
\* root None; a tuple of six into a result with those six fields, root None
\* and a deprecation warning; a dictionary is returned as it is, with no
\* warning.
C13_LegacyResultsUpconverted ==
    (Called("_traverse") /\ ret.exc = "none") =>
        IF call.dict
        THEN ret.val = call.v /\ "_deprecation_warning" \notin DOMAIN ret.val
        ELSE /\ DOMAIN ret.val = ResultFields \cup {"_deprecation_warning"}
             /\ ret.val.context = call.v[1]
             /\ ret.val.view_name = call.v[2]
             /\ ret.val.subpath = call.v[3]
             /\ ret.val.root = None
             /\ IF Len(call.v) = 3
                THEN /\ ret.val.traversed = None
                     /\ ret.val.virtual_root = None
                     /\ ret.val.virtual_root_path = None
                ELSE /\ Len(call.v) = 6
                     /\ ret.val.traversed = call.v[4]
                     /\ ret.val.virtual_root = call.v[5]
                     /\ ret.val.virtual_root_path = call.v[6]
                     /\ ret.val._deprecation_warning # None

\* a tuple of six, none of its values empty, was turned into a dictionary
C13_Witness ==
    /\ Called("_traverse")
    /\ ~call.dict
    /\ call.v = <<3, A, <<B>>, <<B, A>>, 2, <<B>>>>
    /\ ret.exc = "none"
    /\ ret.val.virtual_root_path = <<B>>
    /\ ret.val._deprecation_warning = <<6>>

\* the route variables of the request, none if it matched no route
RouteVariables ==
    IF "bfg.routes.matchdict" \in DOMAIN call.environ
    THEN call.environ["bfg.routes.matchdict"]
    ELSE <<>>

\* the path to walk: the 'traverse' route variable if the request matched a
\* route ('/' without one, a tuple being joined from its encoded elements),
\* the request path otherwise
PathToWalk ==
    IF "bfg.routes.matchdict" \notin DOMAIN call.environ THEN RequestPath
    ELSE IF "traverse" \notin DOMAIN RouteVariables THEN <<SLASH>>
    ELSE IF ~RouteVariables["traverse"].iter THEN RouteVariables["traverse"].v
    ELSE IF RouteVariables["traverse"].v = <<>> THEN <<SLASH>>
    ELSE join(<<SLASH>>, [i \in DOMAIN RouteVariables["traverse"].v |->
                              Encoding(RouteVariables["traverse"].v[i])])

\* the subpath the route variables supply, decoded if it is a string
SuppliedSubpath ==
    IF "subpath" \notin DOMAIN RouteVariables THEN <<>>
    ELSE IF RouteVariables["subpath"].iter THEN RouteVariables["subpath"].v
    ELSE traversal_path(RouteVariables["subpath"].v).val

\* the normalized path of the walk: of the header value, if any, followed by
\* the path to walk
WalkedSegments ==
    traversal_path((IF VH_ROOT_KEY \in DOMAIN call.environ
                    THEN call.environ[VH_ROOT_KEY] ELSE EMPTY) \o PathToWalk).val

\* C14: when the walk consumes every segment of the normalized path, the
\* result has context = the last node reached, view_name = '', traversed =
\* the whole normalized path and subpath = the subpath the route variables
\* supply (empty without one); with route variables the path walked is their
\* 'traverse' value and not the request path.
C14_WholePathConsumed ==
    (Called("ModelGraphTraverser") /\ ret.exc = "none"
         /\ Descents(ROOT, WalkedSegments) = Len(WalkedSegments)) =>
        /\ ret.val.context = NodeAt(ROOT, WalkedSegments)
        /\ ret.val.view_name = EMPTY
        /\ ret.val.traversed = WalkedSegments
        /\ ret.val.subpath = SuppliedSubpath

\* a request of path '/b' matched a route whose variables are the tuple
\* (a, b) to traverse and a subpath string: a and b were descended
C14_Witness ==
    /\ Called("ModelGraphTraverser")
    /\ DOMAIN call.environ = {"bfg.routes.matchdict", "PATH_INFO"}
    /\ call.environ["PATH_INFO"] = Absolute(<<B>>)
    /\ DOMAIN RouteVariables = {"traverse", "subpath"}
    /\ RouteVariables["traverse"] = [iter |-> TRUE, v |-> <<A, B>>]
    /\ ~RouteVariables["subpath"].iter
    /\ ret.exc = "none"
    /\ ret.val.traversed = <<A, B>>
    /\ ParentOf(ret.val.context) \in Children(ROOT)
    /\ ret.val.subpath = <<B, A>>

\* C15: virtual_root returns the root the request carries when there is no
\* virtual root header; find_root(context) when there is no header and the
\* request carries no root; and with a header the node that the header path
\* resolves to from the physical root, for every context and every header
\* value, beginning with '/' or not.
C15_VirtualRootOfContextURL ==
    Called("virtual_root") =>
        IF VH_ROOT_KEY \notin DOMAIN call.request.environ
        THEN /\ ret.exc = "none"
             /\ ret.val = IF "root" \in DOMAIN call.request
                          THEN call.request.root
                          ELSE find_root(call.model)
        ELSE LET segs == traversal_path(call.request.environ[VH_ROOT_KEY])
             IN (segs.exc = "none" /\ Descents(ROOT, segs.val) = Len(segs.val)) =>
                    /\ ret.exc = "none"
                    /\ ret.val = NodeAt(ROOT, segs.val)

\* C16: for every normalized decoded path (no empty, '.' or '..' segment),
\* quoting each segment with quote_path_segment, joining by '/' and decoding
\* with traversal_path gives the path back, also for segments with '/', '%',
\* spaces and non-ASCII text; no quoted segment has a '/' in it.
C16_EncodeDecodeRoundTrip ==
    Called("traversal_path(quoted)") =>
        /\ ret.exc = "none"
        /\ ret.val = call.path
        /\ Len(ret.encoded) = Len(call.path)
        /\ \A i \in DOMAIN ret.encoded :
               \A j \in DOMAIN ret.encoded[i] : ret.encoded[i][j] # SLASH

\* a path of a segment with '/', '%' and a space, a non-ASCII segment and a
\* segment that reads like an escape comes back
C16_Witness ==
    /\ Called("traversal_path(quoted)")
    /\ call.path = <<SLASH_PERCENT_SPACE, N_TILDE, PERCENT_2E>>
    /\ ret.encoded[1] = Str(<<"%", "2", "F", "%", "2", "5", "%", "2", "0">>)
    /\ ret.encoded[2] = Str(<<"%", "C", "3", "%", "B", "1">>)
    /\ ret.encoded[3] = Str(<<"%", "2", "5", "2", "E">>)
    /\ ret.val = call.path

\* what a step leaves of the renderer globals: every key with its value;
\* and what __setitem__ does
C17_KeysAreKept ==
    /\ \A k \in DOMAIN _system : k \in DOMAIN _system' /\ _system'[k] = _system[k]
    /\ call'.op = "__setitem__" =>
           IF call'.name \in DOMAIN _system
           THEN ret'.exc = "KeyError" /\ _system' = _system
           ELSE /\ ret'.exc = "none"
                /\ DOMAIN _system' = DOMAIN _system \cup {call'.name}
                /\ _system'[call'.name] = call'.value

\* C17: BeforeRender.__setitem__(name, value) raises KeyError and leaves the
\* renderer globals as they are when name is in them already, and adds that
\* one pair otherwise; so through any sequence of __setitem__ and update
\* calls no key of the dictionary has its value changed or is removed.
C17_SetItemNeverOverwrites == [][C17_KeysAreKept]_vars

\* __setitem__ was refused for a name that is there with another value
C17_Witness ==
    /\ Called("__setitem__")
    /\ ret.exc = "KeyError"
    /\ call.name \in DOMAIN _system
    /\ _system[call.name] # call.value
    /\ Cardinality(DOMAIN _system) >= 2

\* C18: BeforeRender.get(k, default) returns the value of k in the renderer
\* globals when k is there, and the default given when it is not.
C18_GetReturnsDefault ==
    Called("get") =>
        /\ ret.exc = "none"
        /\ ret.val = IF call.k \in DOMAIN _system THEN _system[call.k]
                     ELSE call.default

\* the path given to find_model as a string: a tuple is joined from its
\* encoded elements
FindPathString ==
    IF ~call.iter THEN call.path
    ELSE IF call.path = <<>> THEN EMPTY
    ELSE or_slash(join(<<SLASH>>,
                       [i \in DOMAIN call.path |-> Encoding(call.path[i])]))

\* C19: find_model(node, path) returns a node only when every segment of the
\* normalized path was resolved by a child lookup, the node returned being
\* the one reached by descending all of them from the start node; a path
\* with a segment that was not descended, a segment '@@' and what follows it
\* included, makes find_model fail.
C19_FindModelResolvesEverySegment ==
    (Called("find_model") /\ ret.exc = "none") =>
        /\ Descents(StartNode, traversal_path(FindPathString).val)
               = Len(traversal_path(FindPathString).val)
        /\ ret.val = NodeAt(StartNode, traversal_path(FindPathString).val)

\* C20: in every result of a walk made with a virtual root header,
\* virtual_root_path is a prefix of the normalized combined path (header
\* value followed by request path) and virtual_root is the node reached from
\* the root by child lookups along virtual_root_path, also when the request
\* path has '..' segments and when the walk stops before the end of the
\* header prefix.
C20_VirtualRootPathIsWalkedPrefix ==
    (Vhosted /\ ret.exc = "none") =>
        /\ IsPrefix(ret.val.virtual_root_path, traversal_path(CombinedPath).val)
        /\ Descents(ROOT, ret.val.virtual_root_path) = Len(ret.val.virtual_root_path)
        /\ ret.val.virtual_root = NodeAt(ROOT, ret.val.virtual_root_path)

\* what update(d) does to the renderer globals if it is all or nothing
C21_UpdateAddsAllOrNothing ==
    call'.op = "update" =>
        IF \E k \in DOMAIN call'.d : k \in DOMAIN _system
        THEN ret'.exc = "KeyError" /\ _system' = _system
        ELSE ret'.exc = "none" /\ _system' = call'.d @@ _system

\* C21: BeforeRender.update(d) is all-or-nothing: if a key of d is in the
\* renderer globals already, update raises KeyError and the dictionary is
\* left as it was before the call, no key of d added; otherwise every pair of
\* d is added.
C21_UpdateIsAtomic == [][C21_UpdateAddsAllOrNothing]_vars

====
